---- MODULE Spec2Model ----
(***************************************************************************)
(* Household inventory: the item repository of src/db.rs (PostgreSQL       *)
(* statements issued through sqlx) and the handlers that call it.          *)
(*                                                                         *)
(* The store is one table of item rows keyed by a serial id and one table  *)
(* of category rows.  Every repository function is a short sequence of SQL *)
(* statements; each statement is atomic, the sequence is not.  Spec runs   *)
(* the repository functions one call at a time; SpecUse interleaves the    *)
(* statements of concurrent use_item calls.                                *)
(***************************************************************************)
EXTENDS Integers, Sequences, FiniteSets, TLC

(* ------------------------------ bounds --------------------------------- *)
MaxUser == 2
MaxItems == 2
MaxCats == 1
MaxName == 2
MaxCatName == 1
MaxNeg == 1
MaxQty == 1
MaxThreshold == 1
MaxAmount == 2
MaxOps == 3
NumCalls == 3
MaxStart == 4
MaxRequests == 2
MaxHashes == 2
MaxChunks == 4
MaxRootCats == 2
NumTasks == 2

(* ------------------------- program constants --------------------------- *)
DefaultThreshold == 1

Users == 1..MaxUser
ItemIds == 1..MaxItems
CatIds == 1..MaxCats
\* Item names, as their rank in the collation ORDER BY i.name sorts by.
Names == 1..MaxName
CategoryNames == 1..MaxCatName
\* A string is the sequence of its characters.
Colors == {<<"#", "F", "F", "F", "F", "F", "F">>}
QtyInputs == (0 - MaxNeg)..MaxQty
ThresholdInputs == 0..MaxThreshold
Amounts == (0 - 1)..MaxAmount
CallIds == 1..NumCalls

(* Option<T>: None is the empty set, Some(v) the singleton. *)
None == {}
Some(v) == {v}
OptionOf(S) == {None} \cup {Some(v) : v \in S}
IsSome(o) == o # {}
Unwrap(o) == CHOOSE v \in o : TRUE
UnwrapOr(o, d) == IF o = {} THEN d ELSE CHOOSE v \in o : TRUE

VARIABLES
    items,       \* table items: id -> row, for the ids that exist
    categories,  \* table categories: id -> row, for the ids that exist
    nextItemId,  \* the serial behind items.id
    nextCatId,   \* the serial behind categories.id
    nops,        \* repository calls made so far (Spec)
    last,        \* the last completed repository call, its arguments and result
    calls,       \* the concurrent use_item calls in flight (SpecUse)
    resp,        \* the response to the last HTTP request (SpecHttp)
    page,        \* the root_handler request in flight (SpecRoot)
    color,       \* a get_text_color_for_bg call: its argument and result (SpecColor)
    tasks        \* the concurrent repository calls in flight (SpecConc)

vars == <<items, categories, nextItemId, nextCatId, nops, last, calls, resp, page, color, tasks>>

(* --------------------------- payloads ---------------------------------- *)
CreateItemPayloads ==
    [name : Names, quantity : QtyInputs,
     restock_threshold : OptionOf(ThresholdInputs), category_id : OptionOf(CatIds)]

UpdateItemPayloads ==
    [name : OptionOf(Names), quantity : OptionOf(QtyInputs),
     restock_threshold : OptionOf(ThresholdInputs), category_id : OptionOf(CatIds)]

CreateCategoryPayloads == [name : CategoryNames, color : Colors]

NoPayload ==
    [name |-> None, quantity |-> None, restock_threshold |-> None, category_id |-> None]

(* --------------------------- SQL statements ---------------------------- *)
\* WHERE user_id = $1 AND id = $2 on table items
OwnedBy(t, user_id, item_id) ==
    item_id \in DOMAIN t /\ t[item_id].user_id = user_id

\* Mutant: the join made on the category id alone.
JoinedCategoryAnyUser(cats, row) ==
    {c \in row.category_id : c \in DOMAIN cats}

\* LEFT JOIN categories c ON c.id = i.category_id AND c.user_id = i.user_id
JoinedCategory(cats, row) ==
    {c \in row.category_id : c \in DOMAIN cats /\ cats[c].user_id = row.user_id}

FlatItemRow(t, cats, item_id) ==
    LET row == t[item_id]
        c == JoinedCategory(cats, row)
    IN [id |-> item_id, name |-> row.name, quantity |-> row.quantity,
        restock_threshold |-> row.restock_threshold,
        category_id |-> c,
        category_name |-> {cats[k].name : k \in c},
        category_color |-> {cats[k].color : k \in c}]

ItemFrom(row) ==
    [id |-> row.id, name |-> row.name, quantity |-> row.quantity,
     restock_threshold |-> row.restock_threshold,
     category |->
        IF IsSome(row.category_id) /\ IsSome(row.category_name) /\ IsSome(row.category_color)
        THEN Some([id |-> Unwrap(row.category_id), name |-> Unwrap(row.category_name),
                   color |-> Unwrap(row.category_color)])
        ELSE None]

get_item_by_id(t, cats, user_id, item_id) ==
    IF OwnedBy(t, user_id, item_id)
    THEN Some(ItemFrom(FlatItemRow(t, cats, item_id)))
    ELSE None

\* The sequences ORDER BY i.name may return for the rows ids: every arrangement
\* of them in non-decreasing name order (rows of equal name come in any order).
OrderByName(t, ids) ==
    {s \in [1..Cardinality(ids) -> ids] :
        /\ \A a, b \in 1..Cardinality(ids) : a # b => s[a] # s[b]
        /\ \A a \in 1..(Cardinality(ids) - 1) : t[s[a]].name <= t[s[a + 1]].name}

ItemsOf(t, cats, s) == [k \in 1..Len(s) |-> ItemFrom(FlatItemRow(t, cats, s[k]))]

get_all_items(t, cats, user_id) ==
    {ItemsOf(t, cats, s) : s \in OrderByName(t, {i \in DOMAIN t : t[i].user_id = user_id})}

\* Mutant: the comparison of the WHERE clause made inclusive.
RestockWhereInclusive(t, user_id, i) ==
    t[i].user_id = user_id /\ t[i].quantity <= t[i].restock_threshold

RestockWhere(t, user_id, i) ==
    t[i].user_id = user_id /\ t[i].quantity < t[i].restock_threshold

get_items_to_restock(t, cats, user_id) ==
    {ItemsOf(t, cats, s) : s \in OrderByName(t, {i \in DOMAIN t : RestockWhere(t, user_id, i)})}

\* items.category_id references categories(id): the statement fails when the
\* referenced row does not exist.
ForeignKeyOk(cats, category_id) == \A c \in category_id : c \in DOMAIN cats

InsertItem(t, id, user_id, name, quantity, threshold, category_id) ==
    [i \in DOMAIN t \cup {id} |->
        IF i = id
        THEN [user_id |-> user_id, name |-> name, quantity |-> quantity,
              restock_threshold |-> threshold, category_id |-> category_id]
        ELSE t[i]]

\* UPDATE items SET name, quantity, restock_threshold, category_id WHERE user_id AND id
UpdateItemRow(t, user_id, item_id, name, quantity, threshold, category_id) ==
    [i \in DOMAIN t |->
        IF i = item_id /\ t[i].user_id = user_id
        THEN [t[i] EXCEPT !.name = name, !.quantity = quantity,
                          !.restock_threshold = threshold, !.category_id = category_id]
        ELSE t[i]]

\* Mutant: the UPDATE made an upsert, which writes the row back when it is gone.
SetQuantityUpsert(t, user_id, item_id, new_quantity) ==
    [i \in DOMAIN t \cup {item_id} |->
        IF i # item_id THEN t[i]
        ELSE IF i \in DOMAIN t
        THEN IF t[i].user_id = user_id THEN [t[i] EXCEPT !.quantity = new_quantity] ELSE t[i]
        ELSE [user_id |-> user_id, name |-> 1, quantity |-> new_quantity,
              restock_threshold |-> DefaultThreshold, category_id |-> None]]

\* UPDATE items SET quantity = $1 WHERE user_id = $2 AND id = $3
SetQuantity(t, user_id, item_id, new_quantity) ==
    [i \in DOMAIN t |->
        IF i = item_id /\ t[i].user_id = user_id
        THEN [t[i] EXCEPT !.quantity = new_quantity]
        ELSE t[i]]

\* Mutant: SET quantity = $1 in place of SET quantity = quantity + $1.
AddQuantityOverwrites(t, user_id, item_id, amount) ==
    [i \in DOMAIN t |->
        IF i = item_id /\ t[i].user_id = user_id
        THEN [t[i] EXCEPT !.quantity = amount]
        ELSE t[i]]

\* UPDATE items SET quantity = quantity + $1 WHERE user_id = $2 AND id = $3
AddQuantity(t, user_id, item_id, amount) ==
    [i \in DOMAIN t |->
        IF i = item_id /\ t[i].user_id = user_id
        THEN [t[i] EXCEPT !.quantity = @ + amount]
        ELSE t[i]]

\* Mutant: DELETE FROM items WHERE id = $2, the account filter dropped.
DeleteItemRowAnyUser(t, user_id, item_id) ==
    [i \in {j \in DOMAIN t : j # item_id} |-> t[i]]

\* DELETE FROM items WHERE user_id = $1 AND id = $2
DeleteItemRow(t, user_id, item_id) ==
    [i \in {j \in DOMAIN t : ~(j = item_id /\ t[j].user_id = user_id)} |-> t[i]]

\* Mutant: rows counted by id alone.
RowsAffectedAnyUser(t, user_id, item_id) == IF item_id \in DOMAIN t THEN 1 ELSE 0

RowsAffected(t, user_id, item_id) == IF OwnedBy(t, user_id, item_id) THEN 1 ELSE 0

(* ------------------- repository functions, as values ------------------- *)
\* Each one is the table after the call and what the call returns:
\* [t, err, ret, rows], ret the Option<Item>, rows the u64 of delete_item.
Outcome(t, err, ret, rows) == [t |-> t, err |-> err, ret |-> ret, rows |-> rows]

create_item(t, cats, id, user_id, payload) ==
    LET threshold == UnwrapOr(payload.restock_threshold, DefaultThreshold)
        t2 == InsertItem(t, id, user_id, payload.name, payload.quantity,
                         threshold, payload.category_id)
    IN IF ForeignKeyOk(cats, payload.category_id)
       THEN Outcome(t2, FALSE, get_item_by_id(t2, cats, user_id, id), 1)
       ELSE Outcome(t, TRUE, None, 0)

update_item(t, cats, user_id, item_id, payload) ==
    IF ~OwnedBy(t, user_id, item_id)
    THEN Outcome(t, FALSE, None, 0)
    ELSE LET cur == t[item_id]
             name == UnwrapOr(payload.name, cur.name)
             quantity == UnwrapOr(payload.quantity, cur.quantity)
             restock_threshold == UnwrapOr(payload.restock_threshold, cur.restock_threshold)
             t2 == UpdateItemRow(t, user_id, item_id, name, quantity,
                                 restock_threshold, payload.category_id)
         IN IF ForeignKeyOk(cats, payload.category_id)
            THEN Outcome(t2, FALSE, get_item_by_id(t2, cats, user_id, item_id), 1)
            ELSE Outcome(t, TRUE, None, 0)

\* Mutant: the check for 0 left out.
UseNewQuantityNoFloor(current_quantity) == Some(current_quantity - 1)

\* Mutant: the check for 0 off by one.
UseNewQuantityFloorAtOne(current_quantity) ==
    IF current_quantity <= 1 THEN None ELSE Some(current_quantity - 1)

\* What use_item writes after reading current_quantity: nothing when it read 0.
UseNewQuantity(current_quantity) ==
    IF current_quantity = 0 THEN None ELSE Some(current_quantity - 1)

use_item(t, cats, user_id, item_id) ==
    IF ~OwnedBy(t, user_id, item_id)
    THEN Outcome(t, FALSE, None, 0)
    ELSE LET w == UseNewQuantity(t[item_id].quantity)
             t2 == IF IsSome(w) THEN SetQuantity(t, user_id, item_id, Unwrap(w)) ELSE t
         IN Outcome(t2, FALSE, get_item_by_id(t2, cats, user_id, item_id),
                    IF IsSome(w) THEN 1 ELSE 0)

purchase_item(t, cats, user_id, item_id, amount) ==
    IF amount <= 0
    THEN Outcome(t, FALSE, get_item_by_id(t, cats, user_id, item_id), 0)
    ELSE LET t2 == AddQuantity(t, user_id, item_id, amount)
         IN IF RowsAffected(t, user_id, item_id) > 0
            THEN Outcome(t2, FALSE, get_item_by_id(t2, cats, user_id, item_id), 1)
            ELSE Outcome(t2, FALSE, None, 0)

\* INSERT INTO categories (user_id, name, color) VALUES ($1, $2, $3)
create_category(cats, id, user_id, payload) ==
    [c \in DOMAIN cats \cup {id} |->
        IF c = id
        THEN [user_id |-> user_id, name |-> payload.name, color |-> payload.color]
        ELSE cats[c]]

delete_item(t, user_id, item_id) ==
    Outcome(DeleteItemRow(t, user_id, item_id), FALSE, None, RowsAffected(t, user_id, item_id))

(* ------------------------------ Spec ----------------------------------- *)
Done(op, user_id, item_id, payload, amount, o, list) ==
    [op |-> op, user |-> user_id, id |-> item_id, payload |-> payload, amount |-> amount,
     err |-> o.err, ret |-> o.ret, rows |-> o.rows, list |-> list]

NoCalls == [c \in CallIds |-> [pc |-> "idle", user |-> 1, id |-> 1, current_quantity |-> 0,
                               ret |-> None]]

\* The variables of the other specifications, at rest.
NoResp ==
    [handler |-> "none", session |-> None, id |-> 1, status |-> "none", ncalls |-> 0,
     fetch |-> "none", notifications |-> <<>>, ret |-> None]
NoGrouped == [categorized |-> <<>>, uncategorized |-> <<>>]
NoPage ==
    [pc |-> "idle", user |-> 1, group |-> TRUE, items |-> <<>>, categories |-> <<>>,
     grouped |-> NoGrouped, db_grouped |-> NoGrouped]
NoColor == [input |-> <<>>, output |-> "none"]
NoTasks == <<>>
AtRest == resp = NoResp /\ page = NoPage /\ color = NoColor /\ tasks = NoTasks

Init ==
    /\ AtRest
    /\ items = <<>>
    /\ categories = <<>>
    /\ nextItemId = 1
    /\ nextCatId = 1
    /\ nops = 0
    /\ last = Done("none", 1, 1, NoPayload, 0, Outcome(<<>>, FALSE, None, 0), <<>>)
    /\ calls = NoCalls

Finish(op, user_id, item_id, payload, amount, o, list) ==
    /\ nops < MaxOps
    /\ nops' = nops + 1
    /\ items' = o.t
    /\ last' = Done(op, user_id, item_id, payload, amount, o, list)
    /\ UNCHANGED <<calls, resp, page, color, tasks>>

CreateCategory(user_id, payload) ==
    /\ nextCatId <= MaxCats
    /\ categories' = create_category(categories, nextCatId, user_id, payload)
    /\ nextCatId' = nextCatId + 1
    /\ Finish("create_category", user_id, nextCatId, NoPayload, 0,
              Outcome(items, FALSE, None, 1), <<>>)
    /\ UNCHANGED nextItemId

CreateItem(user_id, payload) ==
    LET o == create_item(items, categories, nextItemId, user_id,
                         [payload EXCEPT !.name = Unwrap(@), !.quantity = Unwrap(@)])
    IN /\ nextItemId <= MaxItems
       /\ nextItemId' = IF o.err THEN nextItemId ELSE nextItemId + 1
       /\ Finish("create", user_id, nextItemId, payload, 0, o, <<>>)
       /\ UNCHANGED <<categories, nextCatId>>

UpdateItem(user_id, item_id, payload) ==
    /\ Finish("update", user_id, item_id, payload, 0,
              update_item(items, categories, user_id, item_id, payload), <<>>)
    /\ UNCHANGED <<categories, nextItemId, nextCatId>>

UseItem(user_id, item_id) ==
    /\ Finish("use", user_id, item_id, NoPayload, 0,
              use_item(items, categories, user_id, item_id), <<>>)
    /\ UNCHANGED <<categories, nextItemId, nextCatId>>

PurchaseItem(user_id, item_id, amount) ==
    /\ Finish("purchase", user_id, item_id, NoPayload, amount,
              purchase_item(items, categories, user_id, item_id, amount), <<>>)
    /\ UNCHANGED <<categories, nextItemId, nextCatId>>

DeleteItem(user_id, item_id) ==
    /\ Finish("delete", user_id, item_id, NoPayload, 0,
              delete_item(items, user_id, item_id), <<>>)
    /\ UNCHANGED <<categories, nextItemId, nextCatId>>

GetItem(user_id, item_id) ==
    /\ Finish("get", user_id, item_id, NoPayload, 0,
              Outcome(items, FALSE, get_item_by_id(items, categories, user_id, item_id), 0),
              <<>>)
    /\ UNCHANGED <<categories, nextItemId, nextCatId>>

ListItems(user_id) ==
    /\ \E list \in get_all_items(items, categories, user_id) :
          Finish("list", user_id, 1, NoPayload, 0, Outcome(items, FALSE, None, 0), list)
    /\ UNCHANGED <<categories, nextItemId, nextCatId>>

ItemsToRestock(user_id) ==
    /\ \E list \in get_items_to_restock(items, categories, user_id) :
          Finish("restock", user_id, 1, NoPayload, 0, Outcome(items, FALSE, None, 0), list)
    /\ UNCHANGED <<categories, nextItemId, nextCatId>>

Next ==
    \/ \E u \in Users, p \in CreateCategoryPayloads : CreateCategory(u, p)
    \/ \E u \in Users, p \in CreateItemPayloads :
          CreateItem(u, [p EXCEPT !.name = Some(@), !.quantity = Some(@)])
    \/ \E u \in Users, i \in ItemIds, p \in UpdateItemPayloads : UpdateItem(u, i, p)
    \/ \E u \in Users, i \in ItemIds : UseItem(u, i)
    \/ \E u \in Users, i \in ItemIds, a \in Amounts : PurchaseItem(u, i, a)
    \/ \E u \in Users, i \in ItemIds : DeleteItem(u, i)
    \/ \E u \in Users, i \in ItemIds : GetItem(u, i)
    \/ \E u \in Users : ListItems(u)
    \/ \E u \in Users : ItemsToRestock(u)

Spec == Init /\ [][Next]_vars

(* ------------------------------ SpecUse -------------------------------- *)
\* NumCalls requests run use_item on the same item at once.  A call is three
\* statements with an await after each: the SELECT of the quantity, the UPDATE
\* that writes the quantity it computed, and the get_item_by_id it returns.
StartPayload(q) ==
    [name |-> Some(1), quantity |-> Some(q), restock_threshold |-> None,
     category_id |-> None]

\* The store right after create_item(user 1, quantity q) on an empty store.
InitUse ==
    \E q \in 0..MaxStart :
        /\ AtRest
        /\ items = InsertItem(<<>>, 1, 1, 1, q, DefaultThreshold, None)
        /\ categories = <<>>
        /\ nextItemId = 2
        /\ nextCatId = 1
        /\ nops = 1
        /\ last = Done("create", 1, 1, StartPayload(q), 0,
                       create_item(<<>>, <<>>, 1, 1,
                                   [StartPayload(q) EXCEPT !.name = 1, !.quantity = q]),
                       <<>>)
        /\ calls = [c \in CallIds |-> [pc |-> "select", user |-> 1, id |-> 1,
                                       current_quantity |-> 0, ret |-> None]]

StartQuantity == Unwrap(last.payload.quantity)

\* SELECT quantity FROM items WHERE user_id = $1 AND id = $2, and the two
\* early returns that follow it.
UseSelect(c) ==
    LET call == calls[c]
        found == OwnedBy(items, call.user, call.id)
        q == IF found THEN items[call.id].quantity ELSE call.current_quantity
    IN /\ call.pc = "select"
       /\ calls' = [calls EXCEPT ![c] =
                      [call EXCEPT !.current_quantity = q,
                                   !.pc = IF ~found THEN "done"
                                          ELSE IF IsSome(UseNewQuantity(q)) THEN "update"
                                          ELSE "fetch"]]
       /\ UNCHANGED <<items, categories, nextItemId, nextCatId, nops, last, resp, page, color, tasks>>

\* UPDATE items SET quantity = $1 ... with new_quantity = current_quantity - 1
UseUpdate(c) ==
    LET call == calls[c]
    IN /\ call.pc = "update"
       /\ items' = SetQuantity(items, call.user, call.id,
                               Unwrap(UseNewQuantity(call.current_quantity)))
       /\ calls' = [calls EXCEPT ![c] =
                      [call EXCEPT !.pc = IF RowsAffected(items, call.user, call.id) > 0
                                          THEN "fetch" ELSE "done"]]
       /\ UNCHANGED <<categories, nextItemId, nextCatId, nops, last, resp, page, color, tasks>>

\* get_item_by_id(pool, user_id, item_id), the value use_item returns
UseFetch(c) ==
    LET call == calls[c]
    IN /\ call.pc = "fetch"
       /\ calls' = [calls EXCEPT ![c] =
                      [call EXCEPT !.pc = "done",
                                   !.ret = get_item_by_id(items, categories, call.user, call.id)]]
       /\ UNCHANGED <<items, categories, nextItemId, nextCatId, nops, last, resp, page, color, tasks>>

NextUse ==
    \/ \E c \in CallIds : UseSelect(c)
    \/ \E c \in CallIds : UseUpdate(c)
    \/ \E c \in CallIds : UseFetch(c)

SpecUse == InitUse /\ [][NextUse]_vars

AllCallsDone == \A c \in CallIds : calls[c].pc = "done"

(* ------------------------------ SpecHttp ------------------------------- *)
\* The handlers of api_handlers.rs and web_handlers.rs that reach items,
\* categories or notifications, one request at a time.  A request carries its
\* session cookie; the fetch behind the notifications may fail.

\* The session cookie of a request: absent, a value that is no integer, or an
\* integer (any integer: the value is not looked up before it is used).
SessionCookies ==
    {None, Some([parses |-> FALSE, id |-> 0])}
        \cup {Some([parses |-> TRUE, id |-> u]) : u \in Users}

\* Mutant: a cookie that does not parse falls back to account 1.
ParseSessionOrFirst(session) ==
    IF \E c \in session : c.parses THEN {c.id : c \in session} ELSE Some(1)

\* jar.get("session").and_then(|c| c.value().parse().ok())
ParseSession(session) == {c.id : c \in {x \in session : x.parses}}

\* auth: the request has a cookie header that contains "session="
IsAuth(session) == IsSome(session)

\* DBResult<Vec<Item>> of get_items_to_restock: the rows, or the store's error.
RestockResults(t, cats, user_id) ==
    {[ok |-> TRUE, val |-> l] : l \in get_items_to_restock(t, cats, user_id)}
        \cup {[ok |-> FALSE, val |-> <<>>]}

\* Mutant: the error is shown to the user as a notification.
get_notifications_shows_error(res) ==
    IF res.ok
    THEN [k \in 1..Len(res.val) |->
            [item_name |-> res.val[k].name,
             message |-> <<res.val[k].quantity, res.val[k].restock_threshold>>]]
    ELSE <<[item_name |-> 0, message |-> <<0, 0>>]>>

\* web_handlers::get_notifications; the message is the pair it formats.
get_notifications(res) ==
    IF res.ok
    THEN [k \in 1..Len(res.val) |->
            [item_name |-> res.val[k].name,
             message |-> <<res.val[k].quantity, res.val[k].restock_threshold>>]]
    ELSE <<>>

\* api_handlers::get_api_notifications; the message is the triple it formats.
get_api_notifications(res) ==
    IF res.ok
    THEN [k \in 1..Len(res.val) |->
            [item_name |-> res.val[k].name,
             message |-> <<res.val[k].name, res.val[k].quantity,
                           res.val[k].restock_threshold>>]]
    ELSE <<>>

\* impl From<SqlxError> for AppError, then AppError::into_response
StatusOfError(o) == IF o.err THEN "INTERNAL_SERVER_ERROR" ELSE ""

\* .ok_or(AppError::ItemNotFound)?
OkOrItemNotFound(o) ==
    IF o.err THEN "INTERNAL_SERVER_ERROR" ELSE IF o.ret = None THEN "NOT_FOUND" ELSE ""

\* if affected_rows == 0 { return Err(AppError::ItemNotFound) }
RowsOrItemNotFound(o) ==
    IF o.err THEN "INTERNAL_SERVER_ERROR" ELSE IF o.rows = 0 THEN "NOT_FOUND" ELSE ""

\* What the body of a handler did before its notifications: the store it left,
\* the status of the error it returned ("" when it went on), the item it holds
\* and the repository calls it made.
Body(t, cats, nid, ncid, status, ret, ncalls) ==
    [items |-> t, categories |-> cats, nextItemId |-> nid, nextCatId |-> ncid,
     status |-> status, ret |-> ret, ncalls |-> ncalls]

Reads(status, ret, ncalls) ==
    Body(items, categories, nextItemId, nextCatId, status, ret, ncalls)

Writes(o, status, ncalls) ==
    Body(o.t, categories, nextItemId, nextCatId, status, o.ret, ncalls)

Answer(h, session, item_id, status, ncalls, fetch, notifications, ret) ==
    [handler |-> h, session |-> session, id |-> item_id, status |-> status,
     ncalls |-> ncalls, fetch |-> fetch, notifications |-> notifications, ret |-> ret]

\* One request through handler h: the auth layer (web routes), the session
\* cookie, the body m (what the handler does once it has its account id, not
\* looked at before that), the notifications (notifier 0: none,
\* 1: get_notifications, 2: get_api_notifications) and the response.
Serve(h, web, session, item_id, m, notifier, after, success) ==
    /\ nops < MaxRequests
    /\ nops' = nops + 1
    /\ UNCHANGED <<last, calls, page, color, tasks>>
    /\ IF web /\ ~IsAuth(session)
       THEN /\ resp' = Answer(h, session, item_id, "REDIRECT_LOGIN", 0, "none", <<>>, None)
            /\ UNCHANGED <<items, categories, nextItemId, nextCatId>>
       ELSE IF ParseSession(session) = None
       THEN /\ resp' = Answer(h, session, item_id, "BAD_REQUEST", 0, "none", <<>>, None)
            /\ UNCHANGED <<items, categories, nextItemId, nextCatId>>
       ELSE LET user_id == Unwrap(ParseSession(session))
            IN /\ items' = m.items
               /\ categories' = m.categories
               /\ nextItemId' = m.nextItemId
               /\ nextCatId' = m.nextCatId
               /\ IF m.status # ""
                  THEN resp' = Answer(h, session, item_id, m.status, m.ncalls, "none",
                                      <<>>, None)
                  ELSE IF notifier = 0
                  THEN resp' = Answer(h, session, item_id, success, m.ncalls + after,
                                      "none", <<>>, m.ret)
                  ELSE \E res \in RestockResults(m.items, m.categories, user_id) :
                          resp' = Answer(h, session, item_id, success,
                                         m.ncalls + 1 + after,
                                         IF res.ok THEN "ok" ELSE "failed",
                                         IF notifier = 1 THEN get_notifications(res)
                                         ELSE get_api_notifications(res),
                                         m.ret)

list_items_api(session) ==
    LET m == Reads("", None, 1)
    IN Serve("list_items_api", FALSE, session, 1, m, 0, 0, "OK")

get_item_api(session, item_id) ==
    LET u == Unwrap(ParseSession(session))
        m ==
            LET o == Outcome(items, FALSE, get_item_by_id(items, categories, u, item_id), 0)
            IN Reads(OkOrItemNotFound(o), o.ret, 1)
    IN Serve("get_item_api", FALSE, session, item_id, m, 0, 0, "OK")

create_item_api(session, payload) ==
    LET u == Unwrap(ParseSession(session))
        m ==
            LET o == create_item(items, categories, nextItemId, u, payload)
            IN Body(o.t, categories, IF o.err THEN nextItemId ELSE nextItemId + 1,
                    nextCatId, StatusOfError(o), o.ret, 1)
    IN /\ nextItemId <= MaxItems
       /\ Serve("create_item_api", FALSE, session, nextItemId, m, 2, 0, "CREATED")

update_item_api(session, item_id, payload) ==
    LET u == Unwrap(ParseSession(session))
        m ==
            LET o == update_item(items, categories, u, item_id, payload)
            IN Writes(o, OkOrItemNotFound(o), 1)
    IN Serve("update_item_api", FALSE, session, item_id, m, 2, 0, "OK")

use_item_api(session, item_id) ==
    LET u == Unwrap(ParseSession(session))
        m ==
            LET o == use_item(items, categories, u, item_id)
            IN Writes(o, StatusOfError(o), 1)
    IN Serve("use_item_api", FALSE, session, item_id, m, 2, 0, "OK")

purchase_item_api(session, item_id, amount) ==
    LET u == Unwrap(ParseSession(session))
        m ==
            LET o == purchase_item(items, categories, u, item_id, amount)
            IN Writes(o, OkOrItemNotFound(o), 1)
    IN Serve("purchase_item_api", FALSE, session, item_id, m, 2, 0, "OK")

delete_item_api(session, item_id) ==
    LET u == Unwrap(ParseSession(session))
        m ==
            LET o == delete_item(items, u, item_id)
            IN Writes(o, RowsOrItemNotFound(o), 1)
    IN Serve("delete_item_api", FALSE, session, item_id, m, 0, 0, "NO_CONTENT")

get_notifications_api(session) ==
    LET m == Reads("", None, 0)
    IN Serve("get_notifications_api", FALSE, session, 1, m, 2, 0, "OK")

\* get_user_by_id, get_all_items, get_all_categories, get_notifications, render
root_handler(session) ==
    LET m == Reads("", None, 3)
    IN Serve("root_handler", TRUE, session, 1, m, 1, 0, "OK")

show_add_item_form(session) ==
    LET m == Reads("", None, 1)
    IN Serve("show_add_item_form", TRUE, session, 1, m, 1, 1, "OK")

add_item_handler(session, payload) ==
    LET u == Unwrap(ParseSession(session))
        m ==
            LET o == create_item(items, categories, nextItemId, u, payload)
            IN Body(o.t, categories, IF o.err THEN nextItemId ELSE nextItemId + 1,
                    nextCatId, StatusOfError(o), o.ret, 1)
    IN /\ nextItemId <= MaxItems
       /\ Serve("add_item_handler", TRUE, session, nextItemId, m, 0, 0, "REDIRECT")

add_category_handler(session, payload) ==
    LET u == Unwrap(ParseSession(session))
        m ==
            Body(items, create_category(categories, nextCatId, u, payload), nextItemId,
                 nextCatId + 1, "", None, 1)
    IN /\ nextCatId <= MaxCats
       /\ Serve("add_category_handler", TRUE, session, nextCatId, m, 0, 0, "REDIRECT")

show_add_category_form(session) ==
    LET m == Reads("", None, 1)
    IN Serve("show_add_category_form", TRUE, session, 1, m, 1, 0, "OK")

show_edit_item_form(session, item_id) ==
    LET u == Unwrap(ParseSession(session))
        m ==
            LET o == Outcome(items, FALSE, get_item_by_id(items, categories, u, item_id), 0)
            IN Reads(OkOrItemNotFound(o), o.ret, 2)
    IN Serve("show_edit_item_form", TRUE, session, item_id, m, 1, 1, "OK")

edit_item_handler(session, item_id, payload) ==
    LET u == Unwrap(ParseSession(session))
        m ==
            LET o == update_item(items, categories, u, item_id, payload)
            IN Writes(o, StatusOfError(o), 1)
    IN Serve("edit_item_handler", TRUE, session, item_id, m, 0, 0, "REDIRECT")

purchase_item_handler(session, item_id, amount) ==
    LET u == Unwrap(ParseSession(session))
        m ==
            LET o == purchase_item(items, categories, u, item_id, amount)
            IN Writes(o, StatusOfError(o), 1)
    IN Serve("purchase_item_handler", TRUE, session, item_id, m, 0, 0, "REDIRECT")

use_item_handler(session, item_id) ==
    LET u == Unwrap(ParseSession(session))
        m ==
            LET o == use_item(items, categories, u, item_id)
            IN Writes(o, StatusOfError(o), 1)
    IN Serve("use_item_handler", TRUE, session, item_id, m, 0, 0, "REDIRECT")

delete_item_handler(session, item_id) ==
    LET u == Unwrap(ParseSession(session))
        m ==
            LET o == delete_item(items, u, item_id)
            IN Writes(o, RowsOrItemNotFound(o), 1)
    IN Serve("delete_item_handler", TRUE, session, item_id, m, 0, 0, "REDIRECT")

NextHttp ==
    \/ \E c \in SessionCookies : list_items_api(c)
    \/ \E c \in SessionCookies, i \in ItemIds : get_item_api(c, i)
    \/ \E c \in SessionCookies, p \in CreateItemPayloads : create_item_api(c, p)
    \/ \E c \in SessionCookies, i \in ItemIds, p \in UpdateItemPayloads :
          update_item_api(c, i, p)
    \/ \E c \in SessionCookies, i \in ItemIds : use_item_api(c, i)
    \/ \E c \in SessionCookies, i \in ItemIds, a \in Amounts : purchase_item_api(c, i, a)
    \/ \E c \in SessionCookies, i \in ItemIds : delete_item_api(c, i)
    \/ \E c \in SessionCookies : get_notifications_api(c)
    \/ \E c \in SessionCookies : root_handler(c)
    \/ \E c \in SessionCookies : show_add_item_form(c)
    \/ \E c \in SessionCookies, p \in CreateItemPayloads : add_item_handler(c, p)
    \/ \E c \in SessionCookies, p \in CreateCategoryPayloads : add_category_handler(c, p)
    \/ \E c \in SessionCookies : show_add_category_form(c)
    \/ \E c \in SessionCookies, i \in ItemIds : show_edit_item_form(c, i)
    \/ \E c \in SessionCookies, i \in ItemIds, p \in UpdateItemPayloads :
          edit_item_handler(c, i, p)
    \/ \E c \in SessionCookies, i \in ItemIds, a \in Amounts : purchase_item_handler(c, i, a)
    \/ \E c \in SessionCookies, i \in ItemIds : use_item_handler(c, i)
    \/ \E c \in SessionCookies, i \in ItemIds : delete_item_handler(c, i)

SpecHttp == Init /\ [][NextHttp]_vars

(* ------------------------------ SpecColor ------------------------------ *)
\* get_text_color_for_bg on one argument.  A string is the sequence of its
\* characters; the character "e-acute" takes two bytes of UTF-8, every other
\* one byte.

Utf8Len(ch) == IF ch = "e-acute" THEN 2 ELSE 1

RECURSIVE ByteLen(_)
\* str::len: the length in bytes
ByteLen(str) == IF str = <<>> THEN 0 ELSE Utf8Len(Head(str)) + ByteLen(Tail(str))

RECURSIVE trim_start_matches(_, _)
\* str::trim_start_matches: every leading occurrence of ch is removed
trim_start_matches(str, ch) ==
    IF str # <<>> /\ Head(str) = ch THEN trim_start_matches(Tail(str), ch) ELSE str

\* str::is_char_boundary
IsCharBoundary(str, n) == \E k \in 0..Len(str) : ByteLen(SubSeq(str, 1, k)) = n

\* &str[a..b], for a and b on character boundaries
ByteSlice(str, a, b) ==
    LET from == CHOOSE k \in 0..Len(str) : ByteLen(SubSeq(str, 1, k)) = a
        to == CHOOSE k \in 0..Len(str) : ByteLen(SubSeq(str, 1, k)) = b
    IN SubSeq(str, from + 1, to)

LowerDigits == <<"0", "1", "2", "3", "4", "5", "6", "7", "8", "9", "a", "b", "c", "d", "e", "f">>
UpperDigits == <<"0", "1", "2", "3", "4", "5", "6", "7", "8", "9", "A", "B", "C", "D", "E", "F">>

\* char::to_digit(16)
to_digit(ch) ==
    {k - 1 : k \in {n \in 1..16 : LowerDigits[n] = ch \/ UpperDigits[n] = ch}}

RECURSIVE DigitsValue(_, _)
DigitsValue(digits, acc) ==
    IF digits = <<>> THEN acc
    ELSE DigitsValue(Tail(digits), acc * 16 + Unwrap(to_digit(Head(digits))))

\* u8::from_str_radix(src, 16): an optional "+", then one or more digits; the
\* Option is Result::ok of it.
from_str_radix(src) ==
    LET digits == IF src # <<>> /\ Head(src) = "+" THEN Tail(src) ELSE src
    IN IF digits = <<>> \/ \E k \in 1..Len(digits) : to_digit(digits[k]) = None
       THEN None
       ELSE IF DigitsValue(digits, 0) > 255 THEN None
       ELSE Some(DigitsValue(digits, 0))

\* Mutant: brightness at the threshold counts as light.
BrightnessIsLightInclusive(brightness) == brightness >= 150

BrightnessIsLight(brightness) == brightness > 150

\* The result, or "panic" when a slice does not end on a character boundary.
get_text_color_for_bg(hex_color) ==
    LET hex == trim_start_matches(hex_color, "#")
    IN IF ByteLen(hex) # 6 THEN "#000000"
       ELSE IF ~IsCharBoundary(hex, 2) \/ ~IsCharBoundary(hex, 4) THEN "panic"
       ELSE LET r == UnwrapOr(from_str_radix(ByteSlice(hex, 0, 2)), 0)
                g == UnwrapOr(from_str_radix(ByteSlice(hex, 2, 4)), 0)
                b == UnwrapOr(from_str_radix(ByteSlice(hex, 4, 6)), 0)
                brightness == (r * 299 + g * 587 + b * 114) \div 1000
            IN IF BrightnessIsLight(brightness) THEN "#000000" ELSE "#FFFFFF"

\* The arguments: up to MaxHashes "#", then up to MaxChunks of these pieces.
Chunks ==
    {<<"0", "0">>, <<"F", "F">>, <<"f", "f">>, <<"9", "6">>, <<"9", "7">>,
     <<"1", "2">>, <<"3", "4">>, <<"5", "6">>, <<"G", "G">>, <<"+", "F">>,
     <<"0">>, <<"e-acute">>}

RECURSIVE Concat(_)
Concat(parts) == IF parts = <<>> THEN <<>> ELSE Head(parts) \o Concat(Tail(parts))

ColorInputs ==
    {[k \in 1..h |-> "#"] \o Concat(parts) :
        h \in 0..MaxHashes, parts \in UNION {[1..n -> Chunks] : n \in 0..MaxChunks}}

InitColor ==
    /\ resp = NoResp /\ page = NoPage /\ tasks = NoTasks
    /\ items = <<>>
    /\ categories = <<>>
    /\ nextItemId = 1
    /\ nextCatId = 1
    /\ nops = 0
    /\ last = Done("none", 1, 1, NoPayload, 0, Outcome(<<>>, FALSE, None, 0), <<>>)
    /\ calls = NoCalls
    /\ \E input \in ColorInputs : color = [input |-> input, output |-> "none"]

TextColor ==
    /\ color.output = "none"
    /\ color' = [color EXCEPT !.output = get_text_color_for_bg(color.input)]
    /\ UNCHANGED <<items, categories, nextItemId, nextCatId, nops, last, calls, resp, page,
                   tasks>>

NextColor == TextColor

SpecColor == InitColor /\ [][NextColor]_vars

(* ------------------------------ SpecRoot ------------------------------- *)
\* One request through root_handler, split at its repository calls, while
\* delete_category calls of the repository run between them.

\* SELECT id, name, color FROM categories WHERE user_id = $1 ORDER BY name
get_all_categories(cats, user_id) ==
    {[k \in 1..Len(s) |-> [id |-> s[k], name |-> cats[s[k]].name, color |-> cats[s[k]].color]] :
        s \in OrderByName(cats, {c \in DOMAIN cats : cats[c].user_id = user_id})}

\* What the store does with the items that reference a deleted category.
OnDeletePolicies == {"SET NULL", "CASCADE", "RESTRICT"}

\* DELETE FROM categories WHERE user_id = $1 AND id = $2, under a policy
delete_category(t, cats, user_id, category_id, policy) ==
    LET found == category_id \in DOMAIN cats /\ cats[category_id].user_id = user_id
        refs == {i \in DOMAIN t : t[i].category_id = Some(category_id)}
    IN IF ~found THEN [t |-> t, cats |-> cats, err |-> FALSE, rows |-> 0]
       ELSE IF policy = "RESTRICT" /\ refs # {}
       THEN [t |-> t, cats |-> cats, err |-> TRUE, rows |-> 0]
       ELSE [t |-> IF policy = "CASCADE" THEN [i \in DOMAIN t \ refs |-> t[i]]
                   ELSE [i \in DOMAIN t |->
                           IF i \in refs THEN [t[i] EXCEPT !.category_id = None] ELSE t[i]],
             cats |-> [c \in DOMAIN cats \ {category_id} |-> cats[c]],
             err |-> FALSE, rows |-> 1]

\* categorized_map.insert(category.id, CategoryWithItems { .., items: vec![] })
SeedGroup(category) ==
    [id |-> category.id, name |-> category.name, color |-> category.color,
     text_color |-> get_text_color_for_bg(category.color), items |-> <<>>]

\* The map after the loop over the categories: one entry per category id.
SeededMap(cats_seq) ==
    [c \in {cats_seq[k].id : k \in 1..Len(cats_seq)} |->
        SeedGroup(cats_seq[CHOOSE k \in 1..Len(cats_seq) : cats_seq[k].id = c])]

\* The loop over the items: an item with a category is pushed to the entry of
\* that category's id when the map has one (and goes nowhere when it has
\* none); an item without a category is pushed to the uncategorized items.
FilledMap(page_items, map) ==
    LET InGroup(c) == LET Test(it) == it.category # None /\ Unwrap(it.category).id = c
                      IN SelectSeq(page_items, Test)
    IN [c \in DOMAIN map |-> [map[c] EXCEPT !.items = InGroup(c)]]

UncategorizedItems(page_items) ==
    LET Test(it) == it.category = None
    IN SelectSeq(page_items, Test)

\* into_values().collect(): the values in the map's order, which is any order.
MapValues(map) ==
    {[k \in 1..Len(s) |-> map[s[k]]] :
        s \in {f \in [1..Cardinality(DOMAIN map) -> DOMAIN map] :
                  \A a, b \in 1..Cardinality(DOMAIN map) : a # b => f[a] # f[b]}}

\* Mutant: the values in the map's order, the sort left out.
UnsortedValues(map) == MapValues(map)

\* into_values().collect() in the map's order, then sort_by name: every
\* arrangement of the entries in non-decreasing name order.
SortedValues(map) ==
    {[k \in 1..Len(s) |-> map[s[k]]] : s \in OrderByName(map, DOMAIN map)}

\* Mutant: the groups that got no item are left out.
GroupedItemsNonEmpty(page_items, cats_seq) ==
    LET map == FilledMap(page_items, SeededMap(cats_seq))
        kept == [c \in {d \in DOMAIN map : map[d].items # <<>>} |-> map[c]]
    IN {[categorized |-> v, uncategorized |-> UncategorizedItems(page_items)] :
            v \in SortedValues(kept)}

\* GroupedItems { categorized, uncategorized } of root_handler
GroupedItems(page_items, cats_seq) ==
    {[categorized |-> v, uncategorized |-> UncategorizedItems(page_items)] :
        v \in SortedValues(FilledMap(page_items, SeededMap(cats_seq)))}

\* A store that create_category and create_item calls have built.
InitRoot ==
    /\ resp = NoResp /\ page = NoPage /\ color = NoColor /\ tasks = NoTasks
    /\ nops = 0
    /\ last = Done("none", 1, 1, NoPayload, 0, Outcome(<<>>, FALSE, None, 0), <<>>)
    /\ calls = NoCalls
    /\ \E nc \in 0..MaxRootCats, ni \in 0..MaxItems :
          /\ nextCatId = nc + 1
          /\ nextItemId = ni + 1
          /\ categories \in [1..nc -> [user_id : Users, name : Names, color : Colors]]
          /\ items \in [1..ni -> [user_id : Users, name : Names, quantity : {MaxQty},
                                  restock_threshold : {DefaultThreshold},
                                  category_id : OptionOf(1..nc)]]

RootUnchanged == UNCHANGED <<nextItemId, nextCatId, nops, last, calls, resp, color, tasks>>

\* The session and group cookies are read and get_user_by_id has returned.
RootStart(user_id, group_by_category) ==
    /\ page.pc = "idle"
    /\ page' = [page EXCEPT !.pc = "items", !.user = user_id, !.group = group_by_category]
    /\ UNCHANGED <<items, categories>>
    /\ RootUnchanged

RootFetchItems ==
    /\ page.pc = "items"
    /\ \E l \in get_all_items(items, categories, page.user) :
          page' = [page EXCEPT !.pc = "categories", !.items = l]
    /\ UNCHANGED <<items, categories>>
    /\ RootUnchanged

RootFetchCategories ==
    /\ page.pc = "categories"
    /\ \E l \in get_all_categories(categories, page.user) :
          page' = [page EXCEPT !.pc = "render", !.categories = l]
    /\ UNCHANGED <<items, categories>>
    /\ RootUnchanged

\* get_notifications (which leaves no trace in the grouping), the grouping, the
\* rendering.
RootRender ==
    /\ page.pc = "render"
    /\ IF page.group
       THEN \E g \in GroupedItems(page.items, page.categories) :
               page' = [page EXCEPT !.pc = "done", !.grouped = g]
       ELSE page' = [page EXCEPT !.pc = "done"]
    /\ UNCHANGED <<items, categories>>
    /\ RootUnchanged

DeleteCategory(user_id, category_id, policy) ==
    LET o == delete_category(items, categories, user_id, category_id, policy)
    IN /\ page.pc # "done"
       /\ items' = o.t
       /\ categories' = o.cats
       /\ UNCHANGED page
       /\ RootUnchanged

NextRoot ==
    \/ \E u \in Users, g \in BOOLEAN : RootStart(u, g)
    \/ RootFetchItems
    \/ RootFetchCategories
    \/ RootRender
    \/ \E u \in Users, c \in 1..MaxRootCats, p \in OnDeletePolicies : DeleteCategory(u, c, p)

SpecRoot == InitRoot /\ [][NextRoot]_vars

(* ------------------------------ SpecConc ------------------------------- *)
\* NumTasks requests run use_item, purchase_item, update_item or delete_item on
\* the same item at once.  A call is cut at each of its SQL statements.
TaskIds == 1..NumTasks

NoRow == [name |-> 1, quantity |-> 0, restock_threshold |-> 0]

\* The calls: what is called and with what arguments.
ConcPayloads == {p \in UpdateItemPayloads : p.restock_threshold = None /\ p.category_id = None}

TaskStarts ==
    {[op |-> "use", pc |-> "select", amount |-> 0, payload |-> NoPayload,
      current |-> NoRow, rows |-> 0, ret |-> None]}
        \cup {[op |-> "purchase", pc |-> "write", amount |-> a, payload |-> NoPayload,
               current |-> NoRow, rows |-> 0, ret |-> None] : a \in Amounts}
        \cup {[op |-> "update", pc |-> "select", amount |-> 0, payload |-> p,
               current |-> NoRow, rows |-> 0, ret |-> None] : p \in ConcPayloads}
        \cup {[op |-> "delete", pc |-> "write", amount |-> 0, payload |-> NoPayload,
               current |-> NoRow, rows |-> 0, ret |-> None]}

\* The store right after create_item(user 1, quantity q) on an empty store.
InitConc ==
    \E q \in 0..MaxStart :
        /\ resp = NoResp /\ page = NoPage /\ color = NoColor
        /\ items = InsertItem(<<>>, 1, 1, 1, q, DefaultThreshold, None)
        /\ categories = <<>>
        /\ nextItemId = 2
        /\ nextCatId = 1
        /\ nops = 1
        /\ last = Done("create", 1, 1, StartPayload(q), 0,
                       create_item(<<>>, <<>>, 1, 1,
                                   [StartPayload(q) EXCEPT !.name = 1, !.quantity = q]),
                       <<>>)
        /\ calls = NoCalls
        /\ tasks \in [TaskIds -> TaskStarts]

ConcUnchanged == UNCHANGED <<categories, nextItemId, nextCatId, nops, last, calls, resp, page, color>>

\* use_item: SELECT quantity FROM items WHERE user_id = $1 AND id = $2, and the
\* two early returns that follow it.
ConcUseSelect(k) ==
    LET task == tasks[k]
        found == OwnedBy(items, 1, 1)
        q == IF found THEN items[1].quantity ELSE task.current.quantity
    IN /\ task.op = "use" /\ task.pc = "select"
       /\ tasks' = [tasks EXCEPT ![k] =
                      [task EXCEPT !.current.quantity = q,
                                   !.pc = IF ~found THEN "done"
                                          ELSE IF IsSome(UseNewQuantity(q)) THEN "write"
                                          ELSE "fetch"]]
       /\ UNCHANGED items
       /\ ConcUnchanged

\* use_item: UPDATE items SET quantity = $1 with new_quantity = current_quantity - 1
ConcUseWrite(k) ==
    LET task == tasks[k]
    IN /\ task.op = "use" /\ task.pc = "write"
       /\ items' = SetQuantity(items, 1, 1, Unwrap(UseNewQuantity(task.current.quantity)))
       /\ tasks' = [tasks EXCEPT ![k] =
                      [task EXCEPT !.rows = RowsAffected(items, 1, 1),
                                   !.pc = IF RowsAffected(items, 1, 1) > 0
                                          THEN "fetch" ELSE "done"]]
       /\ ConcUnchanged

\* purchase_item: the early return for quantity <= 0, or
\* UPDATE items SET quantity = quantity + $1
ConcPurchaseWrite(k) ==
    LET task == tasks[k]
    IN /\ task.op = "purchase" /\ task.pc = "write"
       /\ items' = IF task.amount <= 0 THEN items
                   ELSE AddQuantity(items, 1, 1, task.amount)
       /\ tasks' = [tasks EXCEPT ![k] =
                      [task EXCEPT !.rows = IF task.amount <= 0 THEN 0
                                            ELSE RowsAffected(items, 1, 1),
                                   !.pc = IF task.amount <= 0 \/ RowsAffected(items, 1, 1) > 0
                                          THEN "fetch" ELSE "done"]]
       /\ ConcUnchanged

\* update_item: SELECT name, quantity, restock_threshold, category_id, and the
\* early return when there is no row.
ConcUpdateSelect(k) ==
    LET task == tasks[k]
        found == OwnedBy(items, 1, 1)
    IN /\ task.op = "update" /\ task.pc = "select"
       /\ tasks' = [tasks EXCEPT ![k] =
                      [task EXCEPT !.current =
                                       IF found
                                       THEN [name |-> items[1].name,
                                             quantity |-> items[1].quantity,
                                             restock_threshold |-> items[1].restock_threshold]
                                       ELSE @,
                                   !.pc = IF found THEN "write" ELSE "done"]]
       /\ UNCHANGED items
       /\ ConcUnchanged

\* update_item: the unwrap_or of each field against the row that was read, and
\* UPDATE items SET name = $1, quantity = $2, restock_threshold = $3, category_id = $4
ConcUpdateWrite(k) ==
    LET task == tasks[k]
        name == UnwrapOr(task.payload.name, task.current.name)
        quantity == UnwrapOr(task.payload.quantity, task.current.quantity)
        restock_threshold ==
            UnwrapOr(task.payload.restock_threshold, task.current.restock_threshold)
    IN /\ task.op = "update" /\ task.pc = "write"
       /\ items' = UpdateItemRow(items, 1, 1, name, quantity, restock_threshold,
                                 task.payload.category_id)
       /\ tasks' = [tasks EXCEPT ![k] =
                      [task EXCEPT !.rows = RowsAffected(items, 1, 1),
                                   !.pc = IF RowsAffected(items, 1, 1) > 0
                                          THEN "fetch" ELSE "done"]]
       /\ ConcUnchanged

\* get_item_by_id(pool, user_id, item_id), the value the call returns
ConcFetch(k) ==
    LET task == tasks[k]
    IN /\ task.pc = "fetch"
       /\ tasks' = [tasks EXCEPT ![k] =
                      [task EXCEPT !.pc = "done",
                                   !.ret = get_item_by_id(items, categories, 1, 1)]]
       /\ UNCHANGED items
       /\ ConcUnchanged

\* delete_item: DELETE FROM items WHERE user_id = $1 AND id = $2
ConcDelete(k) ==
    LET task == tasks[k]
    IN /\ task.op = "delete" /\ task.pc = "write"
       /\ items' = DeleteItemRow(items, 1, 1)
       /\ tasks' = [tasks EXCEPT ![k] =
                      [task EXCEPT !.rows = RowsAffected(items, 1, 1), !.pc = "done"]]
       /\ ConcUnchanged

NextConc ==
    \/ \E k \in TaskIds : ConcUseSelect(k)
    \/ \E k \in TaskIds : ConcUseWrite(k)
    \/ \E k \in TaskIds : ConcPurchaseWrite(k)
    \/ \E k \in TaskIds : ConcUpdateSelect(k)
    \/ \E k \in TaskIds : ConcUpdateWrite(k)
    \/ \E k \in TaskIds : ConcFetch(k)
    \/ \E k \in TaskIds : ConcDelete(k)

SpecConc == InitConc /\ [][NextConc]_vars

AllTasksDone == \A k \in TaskIds : tasks[k].pc = "done"

(* ------------------------------ SpecGroup ------------------------------ *)
\* The two groupings of the program on one store: the one of root_handler on
\* what get_all_items and get_all_categories return, and
\* db::get_items_grouped_by_category.

\* ORDER BY c.name, i.name on two joined rows (a NULL c.name comes last)
CategoryThenNameLeq(r1, r2) ==
    IF r1.category_name # None /\ r2.category_name # None
    THEN \/ Unwrap(r1.category_name) < Unwrap(r2.category_name)
         \/ Unwrap(r1.category_name) = Unwrap(r2.category_name) /\ r1.name <= r2.name
    ELSE IF r1.category_name = None /\ r2.category_name = None THEN r1.name <= r2.name
    ELSE r2.category_name = None

\* The rows of the query of get_items_grouped_by_category, in every order
\* its ORDER BY allows.
GroupedQueryRows(t, cats, user_id) ==
    LET ids == {i \in DOMAIN t : t[i].user_id = user_id}
        n == Cardinality(ids)
    IN {[k \in 1..n |-> FlatItemRow(t, cats, s[k])] :
          s \in {f \in [1..n -> ids] :
                   /\ \A a, b \in 1..n : a # b => f[a] # f[b]
                   /\ \A a \in 1..(n - 1) :
                         CategoryThenNameLeq(FlatItemRow(t, cats, f[a]),
                                             FlatItemRow(t, cats, f[a + 1]))}}

\* The map after the loop over the rows: an entry for each category id that
\* some row carries, made from the first such row, holding the items of the
\* rows of that id in the order of the rows.
EntryMap(rows) ==
    LET InGroup(c) == LET Test(row) == row.category_id = Some(c)
                      IN SelectSeq(rows, Test)
    IN [c \in UNION {rows[k].category_id : k \in 1..Len(rows)} |->
          LET first == Head(InGroup(c))
          IN [id |-> c, name |-> Unwrap(first.category_name),
              color |-> Unwrap(first.category_color),
              text_color |-> get_text_color_for_bg(Unwrap(first.category_color)),
              items |-> [k \in 1..Len(InGroup(c)) |-> ItemFrom(InGroup(c)[k])]]]

UncategorizedRows(rows) ==
    LET Test(row) == row.category_id = None
    IN [k \in 1..Len(SelectSeq(rows, Test)) |-> ItemFrom(SelectSeq(rows, Test)[k])]

get_items_grouped_by_category(t, cats, user_id) ==
    UNION {{[categorized |-> v, uncategorized |-> UncategorizedRows(rows)] :
               v \in MapValues(EntryMap(rows))} :
           rows \in GroupedQueryRows(t, cats, user_id)}

\* root_handler's three steps at once, on the store as it is
GroupInHandler(user_id) ==
    /\ page.pc = "idle"
    /\ \E l \in get_all_items(items, categories, user_id) :
          \E c \in get_all_categories(categories, user_id) :
             \E g \in GroupedItems(l, c) :
                page' = [page EXCEPT !.pc = "handler", !.user = user_id, !.items = l,
                                     !.categories = c, !.grouped = g]
    /\ UNCHANGED <<items, categories>>
    /\ RootUnchanged

GroupInDb ==
    /\ page.pc = "handler"
    /\ \E g \in get_items_grouped_by_category(items, categories, page.user) :
          page' = [page EXCEPT !.pc = "both", !.db_grouped = g]
    /\ UNCHANGED <<items, categories>>
    /\ RootUnchanged

NextGroup ==
    \/ \E u \in Users : GroupInHandler(u)
    \/ GroupInDb

SpecGroup == InitRoot /\ [][NextGroup]_vars

(* ------------------------------ claims --------------------------------- *)
ItemOps == {"get", "update", "use", "purchase", "delete"}

\* C1: in every reachable state every stored item's quantity is >= 0.
C1_QuantityNonNegative == \A i \in DOMAIN items : items[i].quantity >= 0

\* C2: while NumCalls use_item calls interleave on one item that started at a
\* quantity >= 0, the stored quantity is >= 0 in every state, and so is the
\* quantity any call is about to write.
C2_UseNeverNegative ==
    /\ \A i \in DOMAIN items : items[i].quantity >= 0
    /\ \A c \in CallIds :
          calls[c].pc = "update" => Unwrap(UseNewQuantity(calls[c].current_quantity)) >= 0

\* More calls than units, all of them done, two of which read the same
\* positive quantity, and the quantity rests at 0.
C2_Witness ==
    /\ AllCallsDone
    /\ StartQuantity > 0 /\ StartQuantity < NumCalls
    /\ items[1].quantity = 0
    /\ \E c, d \in CallIds :
          /\ c # d
          /\ calls[c].current_quantity > 0
          /\ calls[c].current_quantity = calls[d].current_quantity

\* C3: when NumCalls use_item calls have all run on an item that started at
\* quantity q, the quantity is max(0, q - NumCalls).
C3_NoLostUpdate ==
    AllCallsDone =>
        items[1].quantity =
            (IF StartQuantity > NumCalls THEN StartQuantity - NumCalls ELSE 0)

\* What C4 asks of one step.
C4_StepIsolated ==
    /\ (/\ last'.op \in ItemOps
        /\ last'.id \in DOMAIN items
        /\ items[last'.id].user_id # last'.user)
       => (last'.ret = None /\ last'.rows = 0 /\ items' = items)
    /\ last'.op \in {"list", "restock"}
       => \A k \in 1..Len(last'.list) :
             /\ last'.list[k].id \in DOMAIN items'
             /\ items'[last'.list[k].id].user_id = last'.user

\* C4: a call made with account A on an item id that account B owns returns
\* none / 0 rows and changes no row; the lists of A hold only A's items.
C4_Isolation == [][C4_StepIsolated]_vars

\* Account A asked to delete an item that exists and belongs to account B.
C4_Witness ==
    /\ last.op = "delete"
    /\ last.id \in DOMAIN items
    /\ items[last.id].user_id # last.user
    /\ last.rows = 0

\* What C5 asks of one step.
C5_StepMerges ==
    (last'.op = "update" /\ OwnedBy(items, last'.user, last'.id))
    => /\ last'.id \in DOMAIN items'
       /\ last'.payload.name = None => items'[last'.id].name = items[last'.id].name
       /\ last'.payload.quantity = None
          => items'[last'.id].quantity = items[last'.id].quantity
       /\ last'.payload.restock_threshold = None
          => items'[last'.id].restock_threshold = items[last'.id].restock_threshold
       /\ last'.payload.category_id = None
          => items'[last'.id].category_id = items[last'.id].category_id

\* C5: update_item on an existing item leaves every field the payload does not
\* set at the value it had, the category reference included.
C5_MergePatch == [][C5_StepMerges]_vars

\* What C6 asks of one step.
C6_StepRejects ==
    (/\ last'.op = "update"
     /\ OwnedBy(items, last'.user, last'.id)
     /\ \E q \in last'.payload.quantity : q < 0)
    => (last'.err /\ items' = items)

\* C6: update_item with a negative quantity on an existing item reports a
\* failure and leaves the stored rows as they were.
C6_NegativeRejected == [][C6_StepRejects]_vars

\* What C7 asks of one step.
C7_StepUses ==
    last'.op = "use" =>
        /\ ~last'.err
        /\ IF OwnedBy(items, last'.user, last'.id)
           THEN LET q == items[last'.id].quantity
                IN /\ q > 0 => items' = [items EXCEPT ![last'.id].quantity = q - 1]
                   /\ q = 0 => items' = items
                   /\ q >= 0 =>
                        /\ last'.ret # None
                        /\ \A r \in last'.ret :
                              /\ r.id = last'.id
                              /\ r.name = items[last'.id].name
                              /\ r.restock_threshold = items[last'.id].restock_threshold
                              /\ r.quantity = (IF q > 0 THEN q - 1 ELSE 0)
           ELSE last'.ret = None /\ items' = items

\* C7: use_item run alone: on an item at q > 0 it stores q - 1 and returns the
\* item; at q = 0 it changes nothing and returns the item, no error; on an
\* item the account does not have it returns none and changes nothing.
C7_UseItem == [][C7_StepUses]_vars

\* use_item has just returned an item at quantity 0.
C7_Witness ==
    /\ last.op = "use"
    /\ \E r \in last.ret : r.quantity = 0 /\ items[r.id].quantity = 0

\* What C8 asks of one step.
C8_StepPurchases ==
    last'.op = "purchase" =>
        /\ ~last'.err
        /\ IF OwnedBy(items, last'.user, last'.id)
           THEN LET q == items[last'.id].quantity
                    a == last'.amount
                IN /\ a > 0 => items' = [items EXCEPT ![last'.id].quantity = q + a]
                   /\ a <= 0 => items' = items
                   /\ last'.ret # None
                   /\ \A r \in last'.ret :
                         /\ r.id = last'.id
                         /\ r.name = items[last'.id].name
                         /\ r.restock_threshold = items[last'.id].restock_threshold
                         /\ r.quantity = (IF a > 0 THEN q + a ELSE q)
           ELSE last'.ret = None /\ items' = items

\* C8: purchase_item on an existing item at q stores q + amount when
\* amount > 0 and changes nothing when amount <= 0, returning the item either
\* way; on an item the account does not have it returns none; no other row
\* changes.
C8_PurchaseItem == [][C8_StepPurchases]_vars

\* purchase_item has just added an amount of 2 or more to an item.
C8_Witness ==
    /\ last.op = "purchase"
    /\ last.amount >= 2
    /\ \E r \in last.ret : items[r.id].quantity = r.quantity

\* C9: get_items_to_restock returns exactly the account's items whose quantity
\* is strictly below their threshold, each once, in non-decreasing name order.
C9_BelowThreshold ==
    last.op = "restock" =>
        LET ids == {last.list[k].id : k \in 1..Len(last.list)}
        IN /\ ids = {i \in DOMAIN items :
                        /\ items[i].user_id = last.user
                        /\ items[i].quantity < items[i].restock_threshold}
           /\ Cardinality(ids) = Len(last.list)
           /\ \A k \in 1..Len(last.list) :
                 /\ last.list[k].name = items[last.list[k].id].name
                 /\ last.list[k].quantity = items[last.list[k].id].quantity
                 /\ last.list[k].restock_threshold = items[last.list[k].id].restock_threshold
           /\ \A k \in 1..(Len(last.list) - 1) : last.list[k].name <= last.list[k + 1].name
           /\ \A i \in DOMAIN items :
                 (items[i].quantity = items[i].restock_threshold
                  \/ (items[i].restock_threshold = 0 /\ items[i].quantity >= 0))
                 => i \notin ids

\* The list holds an item below its threshold and leaves out an item of the
\* same account whose quantity equals its threshold.
C9_Witness ==
    /\ last.op = "restock"
    /\ Len(last.list) = 1
    /\ last.list[1].quantity >= 0
    /\ \E i \in DOMAIN items :
          /\ items[i].user_id = last.user
          /\ items[i].restock_threshold > 0
          /\ items[i].quantity = items[i].restock_threshold

\* What C10 asks of one step.
C10_StepDeletes ==
    last'.op = "delete" =>
        /\ ~last'.err
        /\ IF OwnedBy(items, last'.user, last'.id)
           THEN /\ last'.rows = 1
                /\ DOMAIN items' = DOMAIN items \ {last'.id}
                /\ \A i \in DOMAIN items' : items'[i] = items[i]
                /\ get_item_by_id(items', categories', last'.user, last'.id) = None
                /\ delete_item(items', last'.user, last'.id).rows = 0
                /\ delete_item(items', last'.user, last'.id).t = items'
           ELSE last'.rows = 0 /\ items' = items

\* C10: delete_item returns 1 and removes exactly the row (account, id) when
\* it exists, and returns 0 and changes nothing otherwise; after a delete that
\* returned 1 get_item_by_id finds nothing and another delete_item returns 0.
C10_DeleteItem == [][C10_StepDeletes]_vars

\* A second delete_item of an id that was created and then deleted returned 0.
C10_Witness ==
    /\ last.op = "delete"
    /\ last.rows = 0
    /\ last.id < nextItemId
    /\ last.id \notin DOMAIN items

SuccessStatuses == {"OK", "CREATED", "NO_CONTENT", "REDIRECT"}

\* C11: when the fetch behind the notifications fails, the notifier returns the
\* empty sequence and the request still ends in its handler's success status.
C11_NotifierFailOpen ==
    resp.fetch = "failed" =>
        /\ resp.notifications = <<>>
        /\ resp.status \in SuccessStatuses

\* The fetch failed in a request of an account that has an item below its
\* threshold, through the web notifier and through the API notifier.
C11_Witness ==
    /\ resp.fetch = "failed"
    /\ resp.handler \in {"root_handler", "create_item_api"}
    /\ \E u \in ParseSession(resp.session) :
          \E l \in get_items_to_restock(items, categories, u) : Len(l) > 0

\* The handlers that name one existing item by its id.
ItemTargeting ==
    {"get_item_api", "update_item_api", "use_item_api", "purchase_item_api",
     "delete_item_api", "show_edit_item_form", "edit_item_handler",
     "purchase_item_handler", "use_item_handler", "delete_item_handler"}

\* What C16 asks of one request.
C16_StepNotFound ==
    (/\ resp'.handler \in ItemTargeting
     /\ \E u \in ParseSession(resp'.session) : ~OwnedBy(items, u, resp'.id))
        => resp'.status = "NOT_FOUND"

\* C16: every request of an item-targeting handler that names an item which is
\* absent or belongs to another account ends in NOT_FOUND.
C16_NotFoundUniform == [][C16_StepNotFound]_vars

\* The items and the categories a repository call returned.
C17_Returned == last.ret \cup {last.list[k] : k \in 1..Len(last.list)}

\* C17: every item a repository call returns has no category or a category of
\* the account the item belongs to.
C17_CategoryOwned ==
    \A it \in C17_Returned :
        /\ it.id \in DOMAIN items => items[it.id].user_id = last.user
        /\ \A c \in it.category :
              c.id \in DOMAIN categories /\ categories[c.id].user_id = last.user

\* create_item or update_item was given the id of another account's category,
\* stored it, and returned the item without a category.
C17_Witness ==
    /\ last.op \in {"create", "update"}
    /\ \E it \in last.ret :
          /\ it.category = None
          /\ it.id \in DOMAIN items
          /\ \E c \in items[it.id].category_id :
                /\ c \in last.payload.category_id
                /\ c \in DOMAIN categories
                /\ categories[c].user_id # last.user

\* What C18 asks of one request.
C18_StepAuthenticated ==
    IF \E c \in resp'.session : c.parses
    THEN TRUE
    ELSE /\ resp'.ncalls = 0
         /\ resp'.status \in {"BAD_REQUEST", "REDIRECT_LOGIN"}
         /\ UNCHANGED <<items, categories, nextItemId, nextCatId>>

\* C18: a request whose session cookie is missing or is no integer makes no
\* repository call, changes nothing and is rejected.
C18_Unauthenticated == [][C18_StepAuthenticated]_vars

\* A mutating request with a cookie that is no integer was rejected on a store
\* that holds the item it names.
C18_Witness ==
    /\ resp.handler \in {"use_item_handler", "delete_item_api", "update_item_api"}
    /\ resp.session # None
    /\ \A c \in resp.session : ~c.parses
    /\ resp.status = "BAD_REQUEST"
    /\ resp.id \in DOMAIN items

\* The argument without one optional leading "#".
C14_Stripped ==
    IF color.input # <<>> /\ Head(color.input) = "#" THEN Tail(color.input) ELSE color.input

\* The argument is, after one optional "#", exactly six hexadecimal digits.
C14_Valid ==
    /\ Len(C14_Stripped) = 6
    /\ \A k \in 1..6 : to_digit(C14_Stripped[k]) # None

C14_Channel(k) ==
    16 * Unwrap(to_digit(C14_Stripped[2 * k - 1])) + Unwrap(to_digit(C14_Stripped[2 * k]))

C14_Brightness ==
    (299 * C14_Channel(1) + 587 * C14_Channel(2) + 114 * C14_Channel(3)) \div 1000

\* C14: for an argument of six hexadecimal digits after an optional "#" the
\* result is "#000000" when the brightness is above 150 and "#FFFFFF"
\* otherwise.
C14_TextColor ==
    (color.output # "none" /\ C14_Valid) =>
        color.output = IF C14_Brightness > 150 THEN "#000000" ELSE "#FFFFFF"

\* The function was applied to "#969696", whose brightness is exactly 150.
C14_Witness ==
    /\ color.input = <<"#", "9", "6", "9", "6", "9", "6">>
    /\ C14_Brightness = 150
    /\ color.output = "#FFFFFF"

\* C15: for every argument that is not six hexadecimal digits after one
\* optional "#" the result is "#000000".
C15_FailSafe ==
    (color.output # "none" /\ ~C14_Valid) => color.output = "#000000"

\* The places of the grouping's output that hold the fetched item k.
C13_Places(k) ==
    {<<g, n>> \in (0..Len(page.grouped.categorized)) \X (1..Len(page.items)) :
        IF g = 0
        THEN n <= Len(page.grouped.uncategorized)
             /\ page.grouped.uncategorized[n] = page.items[k]
        ELSE n <= Len(page.grouped.categorized[g].items)
             /\ page.grouped.categorized[g].items[n] = page.items[k]}

C12_GroupsOf(c) ==
    {g \in 1..Len(page.grouped.categorized) : page.grouped.categorized[g].id = c}

\* C12: the grouping's output has exactly one group for every category that
\* was fetched, and so for every category the account owns in the store, the
\* ones without items included; a group is empty exactly when no fetched item
\* carries its category.
C12_OneGroupPerCategory ==
    (page.pc = "done" /\ page.group) =>
        /\ Len(page.grouped.categorized) = Len(page.categories)
        /\ \A k \in 1..Len(page.categories) :
              /\ Cardinality(C12_GroupsOf(page.categories[k].id)) = 1
              /\ \A g \in C12_GroupsOf(page.categories[k].id) :
                    /\ page.grouped.categorized[g].name = page.categories[k].name
                    /\ page.grouped.categorized[g].color = page.categories[k].color
                    /\ (page.grouped.categorized[g].items = <<>>) <=>
                          ~\E n \in 1..Len(page.items) :
                              \E c \in page.items[n].category : c.id = page.categories[k].id
        /\ \A c \in DOMAIN categories :
              categories[c].user_id = page.user => Cardinality(C12_GroupsOf(c)) = 1

\* The output has a group with items and a group for a category without items.
C12_Witness ==
    /\ page.pc = "done" /\ page.group
    /\ \E g, h \in 1..Len(page.grouped.categorized) :
          /\ page.grouped.categorized[g].items = <<>>
          /\ page.grouped.categorized[g].id \in DOMAIN categories
          /\ page.grouped.categorized[h].items # <<>>

\* C13: every fetched item is at exactly one place of the grouping's output: in
\* the group of its category when the output has that group, and among the
\* uncategorized items otherwise.
C13_Partition ==
    (page.pc = "done" /\ page.group) =>
        \A k \in 1..Len(page.items) :
            /\ Cardinality(C13_Places(k)) = 1
            /\ \A pl \in C13_Places(k) :
                  IF \E c \in page.items[k].category : C12_GroupsOf(c.id) # {}
                  THEN pl[1] \in C12_GroupsOf(Unwrap(page.items[k].category).id)
                  ELSE pl[1] = 0

\* C19: when a purchase_item of an amount > 0 and a use_item have run at once
\* on an item that started at a quantity q >= 1, the quantity ends at
\* q + amount - 1.
C19_PurchaseNotLost ==
    \A a, b \in TaskIds :
        (/\ AllTasksDone
         /\ StartQuantity >= 1
         /\ tasks[a].op = "purchase" /\ tasks[a].amount > 0
         /\ tasks[b].op = "use")
            => items[1].quantity = StartQuantity + tasks[a].amount - 1

\* C20: when an update_item whose payload sets no quantity has run at once with
\* a purchase_item of an amount > 0 or a use_item, the quantity ends at what
\* the purchase or the use alone makes of the starting quantity.
C20_UpdateKeepsQuantity ==
    \A a, b \in TaskIds :
        (/\ AllTasksDone
         /\ tasks[a].op = "update" /\ tasks[a].payload.quantity = None
         /\ tasks[b].op \in {"purchase", "use"}
         /\ tasks[b].op = "purchase" => tasks[b].amount > 0)
            => items[1].quantity =
                  IF tasks[b].op = "purchase" THEN StartQuantity + tasks[b].amount
                  ELSE UnwrapOr(UseNewQuantity(StartQuantity), StartQuantity)

\* The item lists of the grouping's output: one per group, and the
\* uncategorized items.
C21_Lists ==
    {page.grouped.categorized[g].items : g \in 1..Len(page.grouped.categorized)}
        \cup {page.grouped.uncategorized}

\* Where the fetched items hold the item it.
C21_Index(it) == CHOOSE k \in 1..Len(page.items) : page.items[k] = it

\* C21: in the grouping's output the groups are in non-decreasing order of
\* name, and the items of every group and the uncategorized items are fetched
\* items in the relative order in which they were fetched.
C21_Ordered ==
    (page.pc = "done" /\ page.group) =>
        /\ \A g \in 1..(Len(page.grouped.categorized) - 1) :
              page.grouped.categorized[g].name <= page.grouped.categorized[g + 1].name
        /\ \A l \in C21_Lists :
              /\ \A a \in 1..Len(l) : \E k \in 1..Len(page.items) : page.items[k] = l[a]
              /\ \A a, b \in 1..Len(l) : a < b => C21_Index(l[a]) < C21_Index(l[b])

\* The output has two groups of different names, and a list of two items.
C21_Witness ==
    /\ page.pc = "done" /\ page.group
    /\ Len(page.grouped.categorized) = 2
    /\ page.grouped.categorized[1].name < page.grouped.categorized[2].name
    /\ \E l \in C21_Lists : Len(l) = 2

\* C22: every run of the grouping on the items and categories of this request
\* gives the sequence of groups that this run gave.
C22_Deterministic ==
    (page.pc = "done" /\ page.group) =>
        \A g \in GroupedItems(page.items, page.categories) :
            g.categorized = page.grouped.categorized

\* What C23 asks of one step.
C23_StepStaysDeleted ==
    1 \notin DOMAIN items =>
        /\ 1 \notin DOMAIN items'
        /\ \A k \in TaskIds :
              (/\ tasks[k].op \in {"use", "update", "purchase"}
               /\ tasks[k].pc # "done"
               /\ tasks'[k].pc = "done")
                  => tasks'[k].ret = None

\* C23: once delete_item has removed the item, no use_item, update_item or
\* purchase_item call that is in flight brings it back, and each of them
\* returns None.
C23_NotResurrected == [][C23_StepStaysDeleted]_vars

\* A use_item read a quantity >= 1, delete_item removed the row, and the
\* UPDATE of the use_item then found no row.
C23_Witness ==
    /\ 1 \notin DOMAIN items
    /\ \E d, k \in TaskIds :
          /\ tasks[d].op = "delete" /\ tasks[d].rows = 1
          /\ tasks[k].op = "use" /\ tasks[k].pc = "done"
          /\ tasks[k].current.quantity >= 1
          /\ tasks[k].rows = 0
          /\ tasks[k].ret = None

\* C24: on one store, get_items_grouped_by_category returns what the grouping
\* of root_handler returns: the same groups in the same order, with the same
\* text colors and items, and the same uncategorized items.
C24_GroupingsAgree == page.pc = "both" => page.db_grouped = page.grouped

====
